---- MODULE Spec2Model ----
(***************************************************************************)
(* GraphcoolDefinitionClass (graphcool-cli-engine): loading graphcool.yml, *)
(* stage alias resolution, cluster validation, secrets, token issuance,    *)
(* stage lookup and the textual patching of the definition file.           *)
(*                                                                         *)
(* Strings are sequences of one-character strings, so that offsets, spans, *)
(* whitespace removal and splitting are computed as the code computes      *)
(* them.  Offsets are 0-based as in JavaScript.                            *)
(***************************************************************************)
EXTENDS Integers, Sequences, FiniteSets, TLC

VARIABLES
    disk,              \* content of the file at config.definitionPath
    definition,        \* this.definition
    typesString,       \* this.typesString
    rawStages,         \* this.rawStages
    secrets,           \* this.secrets
    definitionString,  \* this.definitionString
    config,            \* this.config: definitionPath
    env,               \* the Environment passed to load: its cluster names
    now,               \* wall clock, in seconds
    added,             \* history: the insertions of the setStage calls since the last load
    edits,             \* history: the number of setStage calls so far
    lastLoad,          \* history: how the last load ended (none, return, throw)
    input,             \* arguments of the call under study (pure-function specifications)
    result             \* outcome of the last call

vars == <<disk, definition, typesString, rawStages, secrets, definitionString,
          config, env, now, added, edits, lastLoad, input, result>>

----------------------------------------------------------------------------
(* JavaScript values *)

UNDEFINED == [tag |-> "undefined"]
NULL == [tag |-> "null"]
Val(v) == [tag |-> "value", v |-> v]

\* JavaScript truthiness of an optional string: undefined, null and "" are falsy
truthy(x) == x.tag = "value" /\ x.v # <<>>

Return(v) == [kind |-> "return", value |-> v]
Throw(e) == [kind |-> "throw", error |-> e]

TypeError == [name |-> "TypeError"]
RangeError == [name |-> "RangeError"]

\* const x = v; F(x): v is computed once
With(v, F(_)) == CHOOSE r \in {F(x) : x \in {v}} : TRUE

Min(S) == CHOOSE x \in S : \A y \in S : x <= y
Max(S) == CHOOSE x \in S : \A y \in S : x >= y

\* s.slice(a, b) for 0 <= a
slice(s, a, b) == SubSeq(s, a + 1, IF b < Len(s) THEN b ELSE Len(s))

\* s.slice(a)
sliceFrom(s, a) == SubSeq(s, a + 1, Len(s))

\* the character at a 0-based offset
charAt(s, i) == s[i + 1]

Whitespace == {" ", "\n", "\t"}

\* s.replace(/\s/g, '')
removeWhitespace(s) == SelectSeq(s, LAMBDA c : c \notin Whitespace)

RECURSIVE split(_, _)
\* s.split(sep) for a one-character separator: "".split(",") is [""]
split(s, sep) ==
    With({j \in 1..Len(s) : s[j] = sep}, LAMBDA at :
        IF at = {} THEN <<s>>
        ELSE With(Min(at), LAMBDA i :
                <<SubSeq(s, 1, i - 1)>> \o split(SubSeq(s, i + 1, Len(s)), sep)))

\* s without its leading and trailing blanks
trim(s) ==
    With({i \in 1..Len(s) : s[i] \notin Whitespace}, LAMBDA keep :
        IF keep = {} THEN <<>> ELSE SubSeq(s, Min(keep), Max(keep)))

\* a double-quoted scalar denotes its content
unquote(s) ==
    IF Len(s) >= 2 /\ s[1] = "\"" /\ s[Len(s)] = "\""
    THEN SubSeq(s, 2, Len(s) - 1)
    ELSE s

----------------------------------------------------------------------------
(* Texts: keys, literals and the fragments graphcool.yml files are made of *)

\* stages
stagesKey == <<"s", "t", "a", "g", "e", "s">>

\* secret
secretKey == <<"s", "e", "c", "r", "e", "t">>

\* disableAuth
disableAuthKey == <<"d", "i", "s", "a", "b", "l", "e", "A", "u", "t", "h">>

\* datamodel
datamodelKey == <<"d", "a", "t", "a", "m", "o", "d", "e", "l">>

\* default
defaultStage == <<"d", "e", "f", "a", "u", "l", "t">>

\* true
trueText == <<"t", "r", "u", "e">>

\* false
falseText == <<"f", "a", "l", "s", "e">>

\* {}
emptyFlowMapping == <<"{", "}">>

\* datamodel: t
datamodelFound == <<"d", "a", "t", "a", "m", "o", "d", "e", "l", ":", " ", "t">>

\* datamodel: m
datamodelMissing == <<"d", "a", "t", "a", "m", "o", "d", "e", "l", ":", " ", "m">>

\* stages:
stagesNoValue == <<"s", "t", "a", "g", "e", "s", ":">>

\* stages: {}
stagesFlow == <<"s", "t", "a", "g", "e", "s", ":", " ", "{", "}">>

\* stages:\n  a: x
stagesOne == <<"s", "t", "a", "g", "e", "s", ":", "\n", " ", " ", "a", ":", " ", "x">>

\* stages:\n  a: b\n  b: x
stagesAlias ==
    <<"s", "t", "a", "g", "e", "s", ":", "\n", " ", " ", "a", ":", " ", "b", "\n", " ", " ",
      "b", ":", " ", "x">>

\* stages:\n  b: c\n  a: b\n  c: y
stagesChain ==
    <<"s", "t", "a", "g", "e", "s", ":", "\n", " ", " ", "b", ":", " ", "c", "\n", " ", " ",
      "a", ":", " ", "b", "\n", " ", " ", "c", ":", " ", "y">>

\* stages:\n  a: b\n  b: a
stagesCycle ==
    <<"s", "t", "a", "g", "e", "s", ":", "\n", " ", " ", "a", ":", " ", "b", "\n", " ", " ",
      "b", ":", " ", "a">>

\* stages:\n  a: a
stagesSelf == <<"s", "t", "a", "g", "e", "s", ":", "\n", " ", " ", "a", ":", " ", "a">>

\* stages:\n  default: y\n  a: default
stagesDefault ==
    <<"s", "t", "a", "g", "e", "s", ":", "\n", " ", " ", "d", "e", "f", "a", "u", "l", "t",
      ":", " ", "y", "\n", " ", " ", "a", ":", " ", "d", "e", "f", "a", "u", "l", "t">>

\* stages:\n  a: x\n  b: z\n  c: w
stagesUnknown ==
    <<"s", "t", "a", "g", "e", "s", ":", "\n", " ", " ", "a", ":", " ", "x", "\n", " ", " ",
      "b", ":", " ", "z", "\n", " ", " ", "c", ":", " ", "w">>

\* stages:\n  b: a\n  a: z
stagesAliasUnknown ==
    <<"s", "t", "a", "g", "e", "s", ":", "\n", " ", " ", "b", ":", " ", "a", "\n", " ", " ",
      "a", ":", " ", "z">>

\* stages:\n  a: b\n  b: ""
stagesEmptyValue ==
    <<"s", "t", "a", "g", "e", "s", ":", "\n", " ", " ", "a", ":", " ", "b", "\n", " ", " ",
      "b", ":", " ", "\"", "\"">>

\* secret: s1
secretOne == <<"s", "e", "c", "r", "e", "t", ":", " ", "s", "1">>

\* secret: "a, b , c"
secretList ==
    <<"s", "e", "c", "r", "e", "t", ":", " ", "\"", "a", ",", " ", "b", " ", ",", " ", "c",
      "\"">>

\* secret: ","
secretComma == <<"s", "e", "c", "r", "e", "t", ":", " ", "\"", ",", "\"">>

\* secret: " "
secretBlank == <<"s", "e", "c", "r", "e", "t", ":", " ", "\"", " ", "\"">>

\* secret: a,,b
secretGap == <<"s", "e", "c", "r", "e", "t", ":", " ", "a", ",", ",", "b">>

\* secret: ""
secretEmpty == <<"s", "e", "c", "r", "e", "t", ":", " ", "\"", "\"">>

\* disableAuth: true
disableAuthTrue ==
    <<"d", "i", "s", "a", "b", "l", "e", "A", "u", "t", "h", ":", " ", "t", "r", "u", "e">>

\* disableAuth: false
disableAuthFalse ==
    <<"d", "i", "s", "a", "b", "l", "e", "A", "u", "t", "h", ":", " ", "f", "a", "l", "s", "e">>

\* stages:\n  a: x\n  a: y
stagesDuplicate ==
    <<"s", "t", "a", "g", "e", "s", ":", "\n", " ", " ", "a", ":", " ", "x", "\n", " ", " ",
      "a", ":", " ", "y">>

\* stages: abc
stagesShort == <<"s", "t", "a", "g", "e", "s", ":", " ", "a", "b", "c">>

\* stages: abcd
stagesLong == <<"s", "t", "a", "g", "e", "s", ":", " ", "a", "b", "c", "d">>

----------------------------------------------------------------------------
(* The YAML parse tree with offsets (yaml-ast-parser), for the block-style  *)
(* documents of this model: top-level entries start in column 0, a value is *)
(* either on the entry's line or an indented block below it.                *)

\* offsets at which a top-level entry starts
entryStarts(file) ==
    {i \in 0..(Len(file) - 1) :
        /\ i = 0 \/ charAt(file, i - 1) = "\n"
        /\ charAt(file, i) \notin Whitespace}

\* the offset of the colon of the entry starting at s, or -1 when its first line
\* has none
colonOf(file, s) ==
    With(Min({j \in s..Len(file) : j = Len(file) \/ charAt(file, j) = "\n"}),
         LAMBDA lineEnd :
    With({j \in s..(lineEnd - 1) : charAt(file, j) = ":"}, LAMBDA colons :
        IF colons = {} THEN -1 ELSE Min(colons)))

\* one YAMLMapping node, of the entry from offset s up to offset e: its key, its
\* value (NULL for an entry without a value) and their offsets
mappingAt(file, s, e) ==
    With(colonOf(file, s), LAMBDA c :
    With({j \in (c + 1)..(e - 1) : charAt(file, j) \notin Whitespace}, LAMBDA body :
    With(IF body = {} THEN NULL
         ELSE [startPosition |-> Min(body), endPosition |-> Max(body) + 1],
         LAMBDA value :
        [key |-> [value |-> slice(file, s, c), startPosition |-> s, endPosition |-> c],
         value |-> value,
         startPosition |-> s,
         endPosition |-> IF value = NULL THEN c + 1 ELSE value.endPosition])))

RECURSIVE mappingsFrom(_, _)
\* the mappings of the entries starting at the offsets `starts`, in text order
mappingsFrom(file, starts) ==
    IF starts = {} THEN <<>>
    ELSE With(Min(starts), LAMBDA s :
         With(starts \ {s}, LAMBDA later :
            <<mappingAt(file, s, IF later = {} THEN Len(file) ELSE Min(later))>>
            \o mappingsFrom(file, later)))

\* yamlParser.safeLoad(file): null for an empty document, a scalar node when a
\* top-level line is no "key:" entry, else the map node with its mappings
safeLoad(file) ==
    With(entryStarts(file), LAMBDA starts :
        IF starts = {} THEN [kind |-> "null"]
        ELSE IF \E s \in starts : colonOf(file, s) = -1 THEN [kind |-> "scalar"]
        ELSE [kind |-> "map", mappings |-> mappingsFrom(file, starts)])

\* obj.mappings.find(m => m.key.value === key): the index of the first such
\* mapping, 0 when there is none
findMapping(mappings, key) ==
    With({i \in 1..Len(mappings) : mappings[i].key.value = key}, LAMBDA found :
        IF found = {} THEN 0 ELSE Min(found))

----------------------------------------------------------------------------
(* insertToDefinition *)

ShortValueSpan == 4

\* a patch that inserts in front of the entry's value
insertBeforeValue(file, mapping, insertion) ==
    IF mapping.value = NULL
    THEN Throw(TypeError)
    ELSE Return(slice(file, 0, mapping.value.startPosition) \o insertion
                \o sliceFrom(file, mapping.value.startPosition))

\* the branch of insertToDefinition for a found mapping
insertAfter(file, mapping, insertion) ==
    With(slice(file, 0, mapping.endPosition) \o insertion
            \o sliceFrom(file, mapping.endPosition),
         LAMBDA newFile :
        IF mapping.value = NULL
        THEN Throw(TypeError)    \* mapping.value.startPosition of null
        ELSE IF mapping.value.endPosition - mapping.value.startPosition < ShortValueSpan
             THEN Return(slice(newFile, 0, mapping.value.startPosition)
                         \o sliceFrom(newFile, mapping.value.endPosition))
             ELSE Return(newFile))

insertToDefinition(file, key, insertion) ==
    With(safeLoad(file), LAMBDA obj :
        IF obj.kind # "map"
        THEN Throw(TypeError)    \* obj.mappings of null, undefined.find
        ELSE With(findMapping(obj.mappings, key), LAMBDA at :
                IF at # 0
                THEN insertAfter(file, obj.mappings[at], insertion)
                ELSE Return(file \o <<"\n">> \o key \o <<":", " ">> \o insertion)))

----------------------------------------------------------------------------
(* readDefinition: the typed definition of a graphcool.yml text.  A stage   *)
(* mapping is a sequence of <<stage, target>> pairs in Object.keys order.   *)

YAMLException == [name |-> "YAMLException"]

\* whether two entries of a sequence of pairs carry the same key
hasDuplicateKey(pairs) ==
    \E i, j \in 1..Len(pairs) : i # j /\ pairs[i][1] = pairs[j][1]

\* one "stage: target" line of the stages block, as a pair; <<>> when it is none
parsePair(line) ==
    With({i \in 1..Len(line) : line[i] = ":"}, LAMBDA colons :
        IF colons = {} THEN <<>>
        ELSE With(trim(SubSeq(line, Min(colons) + 1, Len(line))), LAMBDA target :
                IF target = <<>> THEN <<>>
                ELSE <<trim(SubSeq(line, 1, Min(colons) - 1)), unquote(target)>>))

\* the stages value: {} or a block of "stage: target" lines
parseStages(text) ==
    IF text = emptyFlowMapping THEN Return(<<>>)
    ELSE With(SelectSeq(split(text, "\n"), LAMBDA l : trim(l) # <<>>), LAMBDA lines :
         With([i \in 1..Len(lines) |-> parsePair(lines[i])], LAMBDA pairs :
            IF \/ \E i \in 1..Len(pairs) : pairs[i] = <<>>
               \/ hasDuplicateKey(pairs)
            THEN Throw(YAMLException)
            ELSE Return(pairs)))

\* the text of the value of top-level key `key`: UNDEFINED without such an entry,
\* NULL for an entry without a value
fieldOf(file, mappings, key) ==
    With(findMapping(mappings, key), LAMBDA at :
        IF at = 0 THEN UNDEFINED
        ELSE IF mappings[at].value = NULL THEN NULL
        ELSE Val(slice(file, mappings[at].value.startPosition,
                       mappings[at].value.endPosition)))

\* a scalar field: its text without the quotes
scalarOf(field) == IF field.tag = "value" THEN Val(unquote(field.v)) ELSE field

\* the definition of a document whose mappings are ms
definitionOf(file, ms) ==
    With(fieldOf(file, ms, stagesKey), LAMBDA stagesText :
    With(IF stagesText.tag = "value" THEN parseStages(stagesText.v) ELSE Return(<<>>),
         LAMBDA stages :
    With(fieldOf(file, ms, disableAuthKey), LAMBDA authText :
        IF \/ hasDuplicateKey([i \in 1..Len(ms) |-> <<ms[i].key.value>>])
           \/ stages.kind = "throw"
           \/ authText.tag = "value" /\ authText.v \notin {trueText, falseText}
        THEN Throw(YAMLException)
        ELSE Return([
            stages |-> IF stagesText.tag = "value" THEN Val(stages.value) ELSE stagesText,
            secret |-> scalarOf(fieldOf(file, ms, secretKey)),
            disableAuth |-> authText = Val(trueText),
            datamodel |-> scalarOf(fieldOf(file, ms, datamodelKey))]))))

readDefinition(file) ==
    With(safeLoad(file), LAMBDA obj :
        IF obj.kind # "map" THEN Throw(YAMLException)
        ELSE definitionOf(file, obj.mappings))

----------------------------------------------------------------------------
(* resolveStageAliases / resolveStage *)

\* the depth of recursion the call stack holds
MaxCallStack == 6

\* stages[stage]
lookup(stages, stage) ==
    With({i \in 1..Len(stages) : stages[i][1] = stage}, LAMBDA found :
        IF found = {} THEN UNDEFINED ELSE Val(stages[Min(found)][2]))

RECURSIVE resolveStage(_, _, _)
\* stages[stage] ? this.resolveStage(stages[stage], stages) : stage
\* depth counts the frames in use: past MaxCallStack the engine raises RangeError
resolveStage(stage, stages, depth) ==
    IF depth > MaxCallStack THEN Throw(RangeError)
    ELSE With(lookup(stages, stage), LAMBDA target :
            IF truthy(target)
            THEN resolveStage(target.v, stages, depth + 1)
            ELSE Return(stage))

\* mapValues(stages, target => this.resolveStage(target, stages)); a null or
\* undefined collection maps to {}
resolveStageAliases(stages) ==
    IF stages.tag # "value" THEN Return(<<>>)
    ELSE With([i \in 1..Len(stages.v) |-> resolveStage(stages.v[i][2], stages.v, 1)],
              LAMBDA each :
            IF \E i \in 1..Len(each) : each[i].kind = "throw"
            THEN Throw(RangeError)
            ELSE Return([i \in 1..Len(each) |-> <<stages.v[i][1], each[i].value>>]))

----------------------------------------------------------------------------
(* ensureOfClusters *)

UnknownCluster(referredCluster, stageName) ==
    [name |-> "Error", message |-> "Could not find cluster, which is used in stage",
     cluster |-> referredCluster, stage |-> stageName]

RECURSIVE ensureFromLast(_, _, _)
\* a cluster check that reports the last stage with an unknown cluster
ensureFromLast(stages, i, clusters) ==
    IF i > Len(stages) THEN Return(UNDEFINED)
    ELSE With(ensureFromLast(stages, i + 1, clusters), LAMBDA rest :
            IF rest.kind = "throw" THEN rest
            ELSE IF stages[i][2] \notin clusters
                 THEN Throw(UnknownCluster(stages[i][2], stages[i][1]))
                 ELSE rest)

RECURSIVE ensureFrom(_, _, _)
\* Object.keys(definition.stages).forEach, from the i-th key on
ensureFrom(stages, i, clusters) ==
    IF i > Len(stages) THEN Return(UNDEFINED)
    ELSE IF stages[i][2] \notin clusters
         THEN Throw(UnknownCluster(stages[i][2], stages[i][1]))
         ELSE ensureFrom(stages, i + 1, clusters)

ensureOfClusters(def, environment) ==
    ensureFrom(def.stages.v, 1, environment.clusters)

----------------------------------------------------------------------------
(* getTypesString *)

\* the paths fs.existsSync finds under config.definitionDir
TypeFiles == {<<"t">>}

\* fs.readFileSync(typesPath, 'utf-8')
readTypes(typesPath) == <<"t", "y", "p", "e", " ">> \o typesPath

TypesNotFound(typesPath) ==
    [name |-> "Error", message |-> "The types definition file could not be found.",
     path |-> typesPath]

RECURSIVE concatTypes(_, _)
\* typesPaths.forEach, from the i-th path on: allTypes += types + '\n'
concatTypes(typesPaths, i) ==
    IF i > Len(typesPaths) THEN Return(<<>>)
    ELSE IF typesPaths[i] \notin TypeFiles THEN Throw(TypesNotFound(typesPaths[i]))
    ELSE With(concatTypes(typesPaths, i + 1), LAMBDA rest :
            IF rest.kind = "throw" THEN rest
            ELSE Return(readTypes(typesPaths[i]) \o <<"\n">> \o rest.value))

\* datamodel is one path here; path.join(dir, undefined) raises TypeError
getTypesString(def) ==
    IF def.datamodel.tag # "value" THEN Throw(TypeError)
    ELSE concatTypes(<<def.datamodel.v>>, 1)

----------------------------------------------------------------------------
(* load *)

NoDefinition == [name |-> "Error", message |-> "Please create a graphcool.yml"]

MissingSecret ==
    [name |-> "Error",
     message |-> "Please either provide a secret in your graphcool.yml or disableAuth: true"]

\* definition.secret ? definition.secret.replace(/\s/g, '').split(',') : null
parseSecrets(def) ==
    IF truthy(def.secret) THEN Val(split(removeWhitespace(def.secret.v), ",")) ELSE NULL

Outcome(op, args, outcome) == [op |-> op, args |-> args, outcome |-> outcome]

\* a load that accepts a definition with neither secret nor disableAuth
loadSecretsUnchecked(def) ==
    \E parsed \in {parseSecrets(def)} :
        /\ secrets' = parsed
        /\ result' = Outcome("load", <<env>>, Return(UNDEFINED))

\* load from the assignment of this.secrets on: def is the definition with its
\* stages resolved
loadSecrets(def) ==
    \E parsed \in {parseSecrets(def)} :
        /\ secrets' = parsed
        /\ result' = IF parsed = NULL /\ ~def.disableAuth
                     THEN Outcome("load", <<env>>, Throw(MissingSecret))
                     ELSE Outcome("load", <<env>>, Return(UNDEFINED))

\* load from ensureOfClusters on
loadResolved(def) ==
    \E ensured \in {ensureOfClusters(def, env)}, types \in {getTypesString(def)} :
        /\ definition' = Val(def)
        /\ IF ensured.kind = "throw"
           THEN /\ result' = Outcome("load", <<env>>, ensured)
                /\ UNCHANGED <<typesString, secrets>>
           ELSE IF types.kind = "throw"
           THEN /\ result' = Outcome("load", <<env>>, types)
                /\ UNCHANGED <<typesString, secrets>>
           ELSE /\ typesString' = Val(types.value)
                /\ loadSecrets(def)

\* load once readDefinition has returned def
loadParsed(def) ==
    \E resolved \in {resolveStageAliases(def.stages)} :
        /\ definitionString' = Val(disk)
        /\ added' = <<>>
        /\ rawStages' = def.stages
        /\ IF resolved.kind = "throw"
           THEN /\ definition' = Val(def)
                /\ result' = Outcome("load", <<env>>, resolved)
                /\ UNCHANGED <<typesString, secrets>>
           ELSE loadResolved([def EXCEPT !.stages = Val(resolved.value)])

Load ==
    /\ UNCHANGED <<disk, config, env, now, edits, input>>
    /\ IF config.definitionPath = UNDEFINED
       THEN /\ result' = Outcome("load", <<env>>, Throw(NoDefinition))
            /\ UNCHANGED <<definition, definitionString, rawStages, typesString, secrets,
                           added>>
       ELSE \E parsed \in {readDefinition(disk)} :
                IF parsed.kind = "throw"
                THEN /\ result' = Outcome("load", <<env>>, parsed)
                     /\ UNCHANGED <<definition, definitionString, rawStages, typesString,
                                    secrets, added>>
                ELSE loadParsed(parsed.value)
    /\ lastLoad' = result'.outcome.kind

----------------------------------------------------------------------------
(* getToken *)

\* expiresIn: '1h', in seconds
OneHour == 3600

\* admin
adminRole == <<"a", "d", "m", "i", "n">>

EmptyKey == [name |-> "Error", message |-> "secretOrPrivateKey must have a value"]

\* jwt.sign(payload, secretOrPrivateKey, {expiresIn}): the token, given by the
\* claims it decodes to and the key that verifies it; an empty key is refused
jwtSign(payload, secretOrPrivateKey, expiresIn) ==
    IF secretOrPrivateKey = <<>> THEN Throw(EmptyKey)
    ELSE Return([claims |-> [data |-> payload.data, iat |-> now, exp |-> now + expiresIn],
                 key |-> secretOrPrivateKey])

\* a token signed with the last secret
getTokenLastSecret(serviceName, stageName) ==
    IF secrets # NULL
    THEN LET data == [data |-> [service |-> serviceName \o <<"@">> \o stageName,
                                roles |-> <<adminRole>>]]
         IN jwtSign(data, secrets.v[Len(secrets.v)], OneHour)
    ELSE Return(UNDEFINED)

getToken(serviceName, stageName) ==
    IF secrets # NULL
    THEN LET data == [data |-> [service |-> serviceName \o <<"@">> \o stageName,
                                roles |-> <<adminRole>>]]
         IN jwtSign(data, secrets.v[1], OneHour)
    ELSE Return(UNDEFINED)

GetToken(serviceName, stageName) ==
    /\ result' = Outcome("getToken", <<serviceName, stageName>>,
                         getToken(serviceName, stageName))
    /\ UNCHANGED <<disk, definition, typesString, rawStages, secrets, definitionString,
                   config, env, now, added, edits, lastLoad, input>>

----------------------------------------------------------------------------
(* getStage and the default accessor *)

StageNotFound(name) == [name |-> "StageNotFound", stage |-> name]

\* a lookup without the fallback to the default stage
stageOnly(name) ==
    IF definition = UNDEFINED THEN UNDEFINED
    ELSE lookup(definition.v.stages.v, name)

\* this.definition && (this.definition.stages[name] || this.definition.stages.default)
stageOrDefault(name) ==
    IF definition = UNDEFINED THEN UNDEFINED
    ELSE With(lookup(definition.v.stages.v, name), LAMBDA stage :
            IF truthy(stage) THEN stage
            ELSE lookup(definition.v.stages.v, defaultStage))

getStage(name, throws) ==
    With(stageOrDefault(name), LAMBDA stage :
        IF ~throws THEN Return(stage)
        ELSE IF ~truthy(stage) THEN Throw(StageNotFound(name))
        ELSE Return(stage))

GetStage(name, throws) ==
    /\ result' = Outcome("getStage", <<name, throws>>, getStage(name, throws))
    /\ UNCHANGED <<disk, definition, typesString, rawStages, secrets, definitionString,
                   config, env, now, added, edits, lastLoad, input>>

\* get default()
default ==
    IF /\ definition # UNDEFINED
       /\ definition.v.stages.tag = "value"
       /\ truthy(lookup(definition.v.stages.v, defaultStage))
    THEN lookup(definition.v.stages.v, defaultStage)
    ELSE NULL

GetDefault ==
    /\ result' = Outcome("default", <<>>, Return(default))
    /\ UNCHANGED <<disk, definition, typesString, rawStages, secrets, definitionString,
                   config, env, now, added, edits, lastLoad, input>>

----------------------------------------------------------------------------
(* setStage and save *)

\* the number of setStage calls of a behaviour
MaxSetStage == 2

\* `\n  ${name}: ${clusterName}`
stageLine(name, clusterName) == <<"\n", " ", " ">> \o name \o <<":", " ">> \o clusterName

setStage(name, clusterName) ==
    IF definitionString = UNDEFINED THEN Throw(TypeError)
    ELSE insertToDefinition(definitionString.v, stagesKey, stageLine(name, clusterName))

SetStage(name, clusterName) ==
    /\ edits < MaxSetStage
    /\ edits' = edits + 1
    /\ \E patched \in {setStage(name, clusterName)} :
          /\ result' = Outcome("setStage", <<name, clusterName>>,
                               IF patched.kind = "throw" THEN patched
                               ELSE Return(UNDEFINED))
          /\ IF patched.kind = "throw"
             THEN UNCHANGED <<definitionString, added>>
             ELSE /\ definitionString' = Val(patched.value)
                  /\ added' = Append(added, stageLine(name, clusterName))
    /\ UNCHANGED <<disk, definition, typesString, rawStages, secrets, config, env, now,
                   lastLoad, input>>

\* undefined
undefinedText == <<"u", "n", "d", "e", "f", "i", "n", "e", "d">>

\* fs.writeFileSync(this.config.definitionPath!, this.definitionString): without a
\* path the write raises TypeError; an undefined text is, by the runtime's version,
\* either written as "undefined" or refused with TypeError
Save ==
    /\ \/ /\ config.definitionPath # UNDEFINED
          /\ definitionString # UNDEFINED
          /\ result' = Outcome("save", <<>>, Return(UNDEFINED))
          /\ disk' = definitionString.v
       \/ /\ config.definitionPath # UNDEFINED
          /\ definitionString = UNDEFINED
          /\ result' = Outcome("save", <<>>, Return(UNDEFINED))
          /\ disk' = undefinedText
       \/ /\ config.definitionPath = UNDEFINED \/ definitionString = UNDEFINED
          /\ result' = Outcome("save", <<>>, Throw(TypeError))
          /\ UNCHANGED disk
    /\ UNCHANGED <<definition, typesString, rawStages, secrets, definitionString, config,
                   env, now, added, edits, lastLoad, input>>

\* the clock advances
MaxClock == 1

Tick ==
    /\ now < MaxClock
    /\ now' = now + 1
    /\ UNCHANGED <<disk, definition, typesString, rawStages, secrets, definitionString,
                   config, env, added, edits, lastLoad, input, result>>

----------------------------------------------------------------------------
(* Files, arguments and initial states *)

RECURSIVE joinLines(_)
\* the non-empty fragments, one after the other, separated by line breaks
joinLines(parts) ==
    IF parts = <<>> THEN <<>>
    ELSE LET rest == joinLines(Tail(parts))
         IN IF Head(parts) = <<>> THEN rest
            ELSE IF rest = <<>> THEN Head(parts)
            ELSE Head(parts) \o <<"\n">> \o rest

StageNames == {<<"a">>, <<"b">>, defaultStage, <<"q">>}
ClusterNames == {<<"x">>, <<"y">>}

StagesParts ==
    {<<>>, stagesNoValue, stagesFlow, stagesOne, stagesAlias, stagesChain, stagesCycle,
     stagesSelf, stagesDefault, stagesUnknown, stagesAliasUnknown, stagesEmptyValue,
     stagesDuplicate}

SecretParts ==
    {<<>>, secretOne, secretList, secretComma, secretBlank, secretGap, secretEmpty}

AuthParts == {<<>>, disableAuthTrue, disableAuthFalse}

\* the state after the constructor: only secrets is assigned
Constructed ==
    /\ definition = UNDEFINED
    /\ typesString = UNDEFINED
    /\ rawStages = UNDEFINED
    /\ secrets = NULL
    /\ definitionString = UNDEFINED
    /\ now = 0
    /\ added = <<>>
    /\ edits = 0
    /\ lastLoad = "none"
    /\ result = Outcome("new", <<>>, Return(UNDEFINED))

Configured == [definitionPath |-> Val(<<"g", "r", "a", "p", "h", "c", "o", "o", "l", ".", "y", "m", "l">>)]
Unconfigured == [definitionPath |-> UNDEFINED]

----------------------------------------------------------------------------
(* SpecLoad: load and the accessors, over the definition files *)

InitLoad ==
    /\ Constructed
    /\ input = UNDEFINED
    /\ \E st \in StagesParts, se \in SecretParts, au \in AuthParts,
          dm \in {datamodelFound, datamodelMissing, <<>>} :
          /\ disk = joinLines(<<st, se, au, dm>>)
          /\ dm # datamodelFound => se = secretOne /\ au = <<>>
    /\ env \in {[clusters |-> ClusterNames], [clusters |-> {<<"x">>}]}
    /\ env.clusters # ClusterNames => disk \in {joinLines(<<st, secretOne, datamodelFound>>) :
                                                  st \in StagesParts}
    /\ config \in {Configured, Unconfigured}
    /\ config = Unconfigured => disk = joinLines(<<stagesOne, secretOne, datamodelFound>>)
                                /\ env.clusters = ClusterNames

NextLoad ==
    \/ Load
    \/ \E name \in StageNames, throws \in BOOLEAN : GetStage(name, throws)
    \/ GetDefault
    \/ \E stageName \in {<<"a">>, <<"q">>} : GetToken(<<"m">>, stageName)
    \/ Tick

SpecLoad == InitLoad /\ [][NextLoad]_vars

----------------------------------------------------------------------------
(* Spec: load, setStage and save on one instance *)

EditFiles ==
    {joinLines(<<stagesOne, secretOne, datamodelFound>>),
     joinLines(<<datamodelFound, stagesFlow, disableAuthTrue>>),
     joinLines(<<datamodelFound, disableAuthTrue>>),
     joinLines(<<stagesNoValue, secretOne, datamodelFound>>),
     joinLines(<<secretOne, datamodelFound, stagesDefault>>) \o <<"\n">>}

\* the setStage calls: a new stage, an existing one, a self-alias, an unknown cluster
EditArgs ==
    {<<<<"b">>, <<"x">>>>, <<<<"a">>, <<"y">>>>, <<<<"c">>, <<"c">>>>, <<<<"q">>, <<"z">>>>}

Init ==
    /\ Constructed
    /\ input = UNDEFINED
    /\ disk \in EditFiles
    /\ env = [clusters |-> ClusterNames]
    /\ config \in {Configured, Unconfigured}
    /\ config = Unconfigured => disk = joinLines(<<stagesOne, secretOne, datamodelFound>>)

Next ==
    \/ Load
    \/ \E args \in EditArgs : SetStage(args[1], args[2])
    \/ Save
    \/ \E name \in {<<"a">>, <<"q">>} : GetStage(name, FALSE)
    \/ GetDefault

Spec == Init /\ [][Next]_vars

----------------------------------------------------------------------------
(* SpecAlias: resolveStageAliases over every small stage mapping *)

MaxStages == 3

AliasKeys == {<<"a">>, <<"b">>, <<"c">>}
AliasTargets == AliasKeys \cup {<<"x">>, <<>>}

\* the stage mappings of at most MaxStages stages
StageMappings ==
    UNION {{m \in [1..n -> AliasKeys \X AliasTargets] : ~hasDuplicateKey(m)} :
           n \in 0..MaxStages}

InitAlias ==
    /\ Constructed
    /\ disk = <<>>
    /\ env = [clusters |-> ClusterNames]
    /\ config = Configured
    /\ input \in StageMappings

ResolveStageAliases ==
    /\ result.op = "new"
    /\ result' = Outcome("resolveStageAliases", <<>>, resolveStageAliases(Val(input)))
    /\ UNCHANGED <<disk, definition, typesString, rawStages, secrets, definitionString,
                   config, env, now, added, edits, lastLoad, input>>

NextAlias == ResolveStageAliases

SpecAlias == InitAlias /\ [][NextAlias]_vars

----------------------------------------------------------------------------
(* SpecPatch: insertToDefinition over texts, keys and insertions *)

PatchFiles ==
    {datamodelFound, stagesNoValue, stagesFlow, stagesShort, stagesLong,
     stagesOne, stagesOne \o <<"\n">>,
     joinLines(<<stagesNoValue, datamodelFound>>),
     joinLines(<<stagesFlow, datamodelFound>>),
     joinLines(<<stagesAlias, secretOne, datamodelFound>>),
     joinLines(<<datamodelFound, stagesFlow, secretOne>>),
     joinLines(<<secretOne, datamodelFound, stagesDefault>>) \o <<"\n">>}

PatchKeys == {stagesKey, secretKey}

Insertions == {stageLine(<<"b">>, <<"y">>), <<"\n", " ", " ", "k">>, <<>>}

InitPatch ==
    /\ Constructed
    /\ disk = <<>>
    /\ env = [clusters |-> ClusterNames]
    /\ config = Configured
    /\ input \in [file : PatchFiles, key : PatchKeys, insertion : Insertions]

InsertToDefinition ==
    /\ result.op = "new"
    /\ result' = Outcome("insertToDefinition", <<>>,
                         insertToDefinition(input.file, input.key, input.insertion))
    /\ UNCHANGED <<disk, definition, typesString, rawStages, secrets, definitionString,
                   config, env, now, added, edits, lastLoad, input>>

NextPatch == InsertToDefinition

SpecPatch == InitPatch /\ [][NextPatch]_vars

----------------------------------------------------------------------------
(* Alias resolution: C1, C5 *)

\* the keys of a stage mapping
Keys(m) == {m[i][1] : i \in 1..Len(m)}

\* the target the mapping gives key k
Target(m, k) == m[CHOOSE i \in 1..Len(m) : m[i][1] = k][2]

RECURSIVE Follow(_, _, _)
\* the value reached from v by n steps of the mapping, stopping at a value that
\* is no key
Follow(m, v, n) ==
    IF n = 0 \/ v \notin Keys(m) THEN v ELSE Follow(m, Target(m, v), n - 1)

\* a key is reachable from itself
Cyclic(m) ==
    \E k \in Keys(m) : \E n \in 1..Len(m) :
        /\ \A j \in 0..(n - 1) : Follow(m, k, j) \in Keys(m)
        /\ Follow(m, k, n) = k

\* the terminal value of key k of an acyclic mapping
Terminal(m, k) == Follow(m, k, Len(m) + 1)

CyclicAliasError == [name |-> "CyclicAliasError"]

\* C1: for every stage mapping that contains a cycle, alias resolution fails with
\* CyclicAliasError (it detects the cycle instead of recursing until the call
\* stack is exhausted).
C1_CycleFailsWithCyclicAliasError ==
    (result.op = "resolveStageAliases" /\ Cyclic(input))
        => result.outcome = Throw(CyclicAliasError)

\* C5: for every acyclic stage mapping, alias resolution returns a mapping with
\* the keys of the input, in which each key's value is the terminal value reached
\* by following the input mapping from that key, a value that is no key of the
\* input.
C5_AcyclicResolvesToTerminal ==
    (result.op = "resolveStageAliases" /\ ~Cyclic(input))
        => /\ result.outcome.kind = "return"
           /\ Len(result.outcome.value) = Len(input)
           /\ \A i \in 1..Len(input) :
                /\ result.outcome.value[i][1] = input[i][1]
                /\ result.outcome.value[i][2] = Terminal(input, input[i][1])
                /\ result.outcome.value[i][2] \notin Keys(input)

----------------------------------------------------------------------------
(* insertToDefinition: C9 *)

\* the text the patch of an existing entry is to produce: the insertion right
\* after the entry's end offset, the value span removed when it is shorter than
\* ShortValueSpan characters, every other character kept in place
PatchedEntry(file, mapping, insertion) ==
    IF mapping.value # NULL
       /\ mapping.value.endPosition - mapping.value.startPosition < ShortValueSpan
    THEN slice(file, 0, mapping.value.startPosition)
         \o slice(file, mapping.value.endPosition, mapping.endPosition)
         \o insertion \o sliceFrom(file, mapping.endPosition)
    ELSE slice(file, 0, mapping.endPosition) \o insertion
         \o sliceFrom(file, mapping.endPosition)

\* whether the text has a top-level entry with the key
HasEntry(file, key) ==
    /\ safeLoad(file).kind = "map"
    /\ findMapping(safeLoad(file).mappings, key) # 0

\* the first top-level entry with the key
EntryOf(file, key) ==
    safeLoad(file).mappings[findMapping(safeLoad(file).mappings, key)]

\* C9: for every text with a top-level entry of the key, whatever its value,
\* insertToDefinition returns the text with the insertion right after the entry's
\* end offset and the value span removed iff it is shorter than 4 characters; for a
\* text without such an entry it returns the text, a newline, "key: " and the
\* insertion.
C9_InsertToDefinitionPatches ==
    result.op = "insertToDefinition"
        => result.outcome =
             IF HasEntry(input.file, input.key)
             THEN Return(PatchedEntry(input.file, EntryOf(input.file, input.key),
                                      input.insertion))
             ELSE Return(input.file \o <<"\n">> \o input.key \o <<":", " ">>
                         \o input.insertion)

\* Supporting C9: the patch is as described for every entry that carries a value
PatchOfValuedEntry ==
    (/\ result.op = "insertToDefinition"
     /\ HasEntry(input.file, input.key)
     /\ EntryOf(input.file, input.key).value # NULL)
        => result.outcome = Return(PatchedEntry(input.file,
                                                EntryOf(input.file, input.key),
                                                input.insertion))

----------------------------------------------------------------------------
(* load: C2, C3, C4, C6 *)

\* C2: after a load that fails, no partial definition is exposed: getStage finds
\* no stage for any name (StageNotFound in strict mode) and the default accessor
\* returns none.
C2_FailedLoadExposesNothing ==
    lastLoad = "throw"
        => /\ default = NULL
           /\ \A name \in StageNames :
                /\ getStage(name, FALSE) = Return(UNDEFINED)
                /\ getStage(name, TRUE) = Throw(StageNotFound(name))

\* C3, as claimed: after every successful load exactly one of "secrets is
\* non-null" and "disableAuth is true" holds.
C3_ExactlyOneOfSecretsAndDisableAuth ==
    lastLoad = "return" => ((secrets # NULL) # definition.v.disableAuth)

\* C3, amended: after every successful load at least one of "secrets is non-null"
\* and "disableAuth is true" holds; a load never succeeds with neither.
C3_SecretsOrDisableAuth ==
    lastLoad = "return" => (secrets # NULL \/ definition.v.disableAuth)

\* a load has succeeded with a secret and disableAuth: true together
C3_LoadedWithSecretAndDisableAuth ==
    lastLoad = "return" /\ secrets # NULL /\ definition.v.disableAuth

\* the comma-separated pieces of the raw secret, each with its whitespace removed
SecretPieces(raw) ==
    [i \in 1..Len(split(raw, ",")) |-> removeWhitespace(split(raw, ",")[i])]

\* C4: after every successful load, secrets is null or a non-empty sequence of
\* non-empty strings, the comma-separated pieces of the raw secret with the
\* whitespace removed; a secret field that is present never leaves a successful
\* load without a usable secret.
C4_SecretsAreNonEmptyPieces ==
    lastLoad = "return"
        => /\ secrets # NULL
                => /\ secrets.v = SecretPieces(definition.v.secret.v)
                   /\ Len(secrets.v) >= 1
                   /\ \A i \in 1..Len(secrets.v) : secrets.v[i] # <<>>
           /\ definition.v.secret # UNDEFINED => secrets # NULL

\* the stages of a mapping whose cluster the registry does not hold
Offending(stages, clusters) == {i \in 1..Len(stages) : stages[i][2] \notin clusters}

\* what the file on disk resolves to; meaningful when the file parses
ResolvedOnDisk == resolveStageAliases(readDefinition(disk).value.stages)

\* the load reaches the cluster check: a path, a file that parses, no alias cycle
ReachesClusterCheck ==
    /\ config.definitionPath # UNDEFINED
    /\ readDefinition(disk).kind = "return"
    /\ ResolvedOnDisk.kind = "return"

\* C6: a load succeeds only if every resolved stage names a registered cluster;
\* when the resolved stages name an unknown cluster it fails with the error that
\* names the first offending stage in key order and its cluster, a function of
\* the inputs; the registry is as it was passed.
C6_UnknownClusterFailsLoad ==
    result.op = "load"
        => /\ env = result.args[1]
           /\ result.outcome.kind = "return"
                => Offending(definition.v.stages.v, env.clusters) = {}
           /\ ReachesClusterCheck
                => \E stages \in {ResolvedOnDisk.value} :
                     \E unknown \in {Offending(stages, env.clusters)} :
                        unknown # {}
                            => result.outcome =
                                 Throw(UnknownCluster(stages[Min(unknown)][2],
                                                      stages[Min(unknown)][1]))

\* a load has failed on the first of two stages that name unknown clusters
C6_FailedOnFirstUnknownCluster ==
    /\ result.op = "load"
    /\ ReachesClusterCheck
    /\ Cardinality(Offending(ResolvedOnDisk.value, env.clusters)) >= 2
    /\ result.outcome = Throw(UnknownCluster(<<"z">>, <<"b">>))

----------------------------------------------------------------------------
(* getToken and getStage: C7, C8 *)

StageContract(name, throws) ==
    IF name \in Keys(definition.v.stages.v)
    THEN Return(Val(Target(definition.v.stages.v, name)))
    ELSE IF defaultStage \in Keys(definition.v.stages.v)
    THEN Return(Val(Target(definition.v.stages.v, defaultStage)))
    ELSE IF throws THEN Throw(StageNotFound(name))
    ELSE Return(UNDEFINED)

\* the state right after a getStage call
GetStageAnswered ==
    /\ ~result.args[2] => result.outcome.kind = "return"
    /\ lastLoad = "return" => result.outcome = StageContract(result.args[1], result.args[2])

\* C8: after a successful load getStage returns the resolved cluster of the name
\* when it is a stage, else the cluster of the stage "default" when there is one,
\* else fails with StageNotFound in strict mode and returns the not-found value
\* otherwise; StageNotFound is never raised outside strict mode, and getStage
\* changes no loader state.
C8_GetStageFallsBackToDefault ==
    [][result'.op = "getStage"
         => /\ GetStageAnswered'
            /\ UNCHANGED <<disk, definition, typesString, rawStages, secrets,
                           definitionString, config, env>>]_vars

\* getStage has answered with the default stage's cluster for a name that is no
\* stage
C8_AnsweredWithDefault ==
    /\ result.op = "getStage"
    /\ lastLoad = "return"
    /\ result.args[1] \notin Keys(definition.v.stages.v)
    /\ result.outcome = Return(Val(<<"y">>))

----------------------------------------------------------------------------
(* setStage and save: C10 *)

\* the offsets from `from` on at which line occurs in text
Occurs(text, line, from) ==
    {p \in from..(Len(text) - Len(line)) : slice(text, p, p + Len(line)) = line}

RECURSIVE InOrder(_, _, _)
\* text holds the lines, one after the other, from offset `from` on
InOrder(text, lines, from) ==
    \/ lines = <<>>
    \/ \E at \in {Occurs(text, lines[1], from)} :
          /\ at # {}
          /\ InOrder(text, Tail(lines), Min(at) + Len(lines[1]))

====
